---- MODULE Spec2Model ----
(***************************************************************************)
(* Translator_app backend: per-user provider routing (custom endpoint vs   *)
(* built-in provider), the translation cache, and the custom endpoint      *)
(* activation logic of the settings store.                                 *)
(*                                                                         *)
(* Store part    : backend/app/services/auth.py,                           *)
(*                 backend/app/api/v1/endpoints/developer.py               *)
(* Routing part  : backend/app/services/translation.py, speech2text.py,    *)
(*                 text2speech.py                                          *)
(***************************************************************************)
EXTENDS Integers, Sequences, FiniteSets, TLC

VARIABLES
    endpoints,   \* committed rows of table custom_endpoints: id -> row
    nextId,      \* next autoincrement id of custom_endpoints
    settings,    \* committed rows of table user_settings: user_id -> row
    sess,        \* one DB session (request) per entry: position, pending writes,
                 \* and (history) whether a commit of the call changed a stored row
    req,         \* the capability request in flight (routing core)
    cache,       \* redis: key -> value
    served,      \* history: <<text, src, dst, caller>> answered by the provider and
                 \* cached, entry not expired since
    builtinSel,  \* history: <<user, field>> preferences set to a built-in provider by
                 \* update_user_settings, no endpoint of the pair activated since
    http,        \* the HTTP handler in flight (api/v1/endpoints)
    translations,\* committed rows of table translations: id -> row
    groq         \* call_grop_api: the provider's segments and the transcript built

vars == <<endpoints, nextId, settings, sess, req, cache, served, builtinSel,
          http, translations, groq>>

(***************************************************************************)
(* Bounds                                                                  *)
(***************************************************************************)
MaxEndpoints == 2     \* rows ever inserted into custom_endpoints
MaxFields == 2        \* entries of one settings_data dict

Users == {1, 2}       \* user 1 has a user_settings row, user 2 (legacy) has none
Anonymous == 0
Sessions == {1, 2}
EndpointTypes == {"translation", "speech2text", "text2speech"}
Names == {"my_tts"}

(***************************************************************************)
(* Strings: str.startswith, str.replace and int() as update_user_settings  *)
(* uses them on a preference value.                                        *)
(***************************************************************************)
\* str.strip on the blank character
RECURSIVE LStrip(_)
LStrip(v) == IF Len(v) > 0 /\ SubSeq(v, 1, 1) = " " THEN LStrip(SubSeq(v, 2, Len(v))) ELSE v

RECURSIVE RStrip(_)
RStrip(v) == IF Len(v) > 0 /\ SubSeq(v, Len(v), Len(v)) = " "
             THEN RStrip(SubSeq(v, 1, Len(v) - 1)) ELSE v

Strip(v) == RStrip(LStrip(v))

Digits == <<"0", "1", "2", "3", "4", "5", "6", "7", "8", "9">>

StartsWith(v, p) == Len(v) >= Len(p) /\ SubSeq(v, 1, Len(p)) = p

RECURSIVE Replace(_, _)
\* v.replace(p, ""): every occurrence of p is removed, left to right
Replace(v, p) ==
    IF Len(v) = 0 THEN ""
    ELSE IF StartsWith(v, p) THEN Replace(SubSeq(v, Len(p) + 1, Len(v)), p)
    ELSE SubSeq(v, 1, 1) \o Replace(SubSeq(v, 2, Len(v)), p)

DigitVal(c) == IF \E d \in 1..10 : Digits[d] = c
               THEN (CHOOSE d \in 1..10 : Digits[d] = c) - 1
               ELSE -1

RECURSIVE IntAcc(_, _)
IntAcc(v, acc) ==
    IF Len(v) = 0 THEN acc
    ELSE IF DigitVal(SubSeq(v, 1, 1)) < 0 THEN -1
    ELSE IntAcc(SubSeq(v, 2, Len(v)), acc * 10 + DigitVal(SubSeq(v, 1, 1)))

\* int(v) of a decimal string; -1 stands for ValueError
ParseInt(v) == IF Len(v) = 0 THEN -1 ELSE IntAcc(v, 0)

CustomPrefix == "custom_"

IsCustom(value) == StartsWith(value, CustomPrefix)

EndpointIdOf(value) == ParseInt(Replace(value, CustomPrefix))

(***************************************************************************)
(* Rows                                                                    *)
(***************************************************************************)
Row(u, t, n, a) == [user_id |-> u, endpoint_type |-> t, name |-> n, is_active |-> a]

DefaultSettings == [translate_api |-> "google", stt_api |-> "groq",
                    text2speech_api |-> "elevenlabs"]

SettingsFields == {"translate_api", "stt_api", "text2speech_api"}

IdleSession == [pc |-> "idle", op |-> "none", user_id |-> 0, data |-> <<>>,
                endpoint_id |-> 0, endpoint_type |-> "none", result |-> 0,
                act |-> "none", ret |-> "none", wE |-> <<>>, wS |-> <<>>,
                deacts |-> {}, overlapped |-> FALSE, failedAt |-> "none",
                wrote |-> FALSE]

\* rows another session holds a row lock on (updated, not yet committed)
LockedByOther(s) == UNION {DOMAIN sess[o].wE : o \in Sessions \ {s}}

\* variant: the user_id filter is missing
MatchType_anyUser(u, t) == {id \in DOMAIN endpoints : endpoints[id].endpoint_type = t}

\* rows the filter user_id = u AND endpoint_type = t selects
MatchType(u, t) == {id \in DOMAIN endpoints :
                      endpoints[id].user_id = u /\ endpoints[id].endpoint_type = t}

ActiveOf(u, t) == {id \in MatchType(u, t) : endpoints[id].is_active}

AllIdle == \A s \in Sessions : sess[s].pc = "idle"

\* another request is inside its transaction when session s begins
Overlaps(s) == \E o \in Sessions \ {s} : sess[o].pc \notin {"idle", "ret"}

RouteVars == <<req, cache, served, http, translations, groq>>

(***************************************************************************)
(* Settings store: services/auth.py                                        *)
(***************************************************************************)
\* variant: both branches of update_user_settings pass "translation"
TypeOfField_copyPaste(field) == "translation"

TypeOfField(field) == IF field = "translate_api" THEN "translation" ELSE "speech2text"

\* the UPDATE ... SET is_active = false WHERE user_id = u AND endpoint_type = t
\* statement shared by activate_custom_endpoint and deactivate_all_custom_endpoints
\* variant: the statement only touches the rows that are active
DeactivateWrites_activeOnly(u, t) == [id \in ActiveOf(u, t) |-> FALSE]

DeactivateWrites(u, t) == [id \in MatchType(u, t) |-> FALSE]

\* the UPDATE ... SET is_active = true WHERE id = X AND user_id = u AND endpoint_type = t
\* variant: the endpoint_type filter is missing
ActivateWrites_anyType(u, id, t) ==
    [i \in {j \in DOMAIN endpoints : j = id /\ endpoints[j].user_id = u} |-> TRUE]

ActivateWrites(u, id, t) == [i \in {j \in MatchType(u, t) : j = id} |-> TRUE]

\* db.commit(): flush the dirty attributes and make the pending updates visible
CommitEndpoints(w) ==
    [id \in DOMAIN endpoints |->
        IF id \in DOMAIN w THEN [endpoints[id] EXCEPT !.is_active = w[id]]
        ELSE endpoints[id]]

CommitSettings(u, w) ==
    IF DOMAIN w = {} THEN settings
    ELSE [settings EXCEPT ![u] =
            [translate_api |-> IF "translate_api" \in DOMAIN w
                               THEN w["translate_api"] ELSE settings[u].translate_api,
             stt_api |-> IF "stt_api" \in DOMAIN w
                         THEN w["stt_api"] ELSE settings[u].stt_api,
             text2speech_api |-> IF "text2speech_api" \in DOMAIN w
                                 THEN w["text2speech_api"] ELSE settings[u].text2speech_api]]

\* history: the capability a preference field selects the provider of
PrefCap(field) == IF field = "translate_api" THEN "translation"
                  ELSE IF field = "stt_api" THEN "speech2text"
                  ELSE "text2speech"

\* (user, type) pairs that gain an active endpoint between two tables
Activated(old, new) ==
    {<<new[id].user_id, new[id].endpoint_type>> :
        id \in {i \in DOMAIN new : new[i].is_active
                                   /\ (i \notin DOMAIN old \/ ~old[i].is_active)}}

\* update_user_settings: the settings query; without a row the call returns None
BeginUpdateSettings(s, u, data) ==
    /\ sess[s].pc = "idle"
    /\ sess' = [sess EXCEPT ![s] =
                  IF u \in DOMAIN settings
                  THEN [IdleSession EXCEPT !.pc = "loop", !.op = "update_user_settings",
                                           !.user_id = u, !.data = data,
                                           !.overlapped = Overlaps(s)]
                  ELSE [IdleSession EXCEPT !.pc = "ret", !.op = "update_user_settings",
                                           !.user_id = u, !.ret = "None"]]
    /\ UNCHANGED <<endpoints, nextId, settings, builtinSel>>
    /\ UNCHANGED RouteVars

\* one iteration of "for field, value in settings_data.items()"
SetField(s) ==
    LET cur == sess[s]
        field == Head(cur.data)[1]
        value == Head(cur.data)[2]
        rest == Tail(cur.data)
        u == cur.user_id
        t == TypeOfField(field)
        set == [cur EXCEPT !.data = rest, !.act = "none",
                           !.wS = (field :> value) @@ cur.wS]
    IN
    /\ cur.pc = "loop"
    /\ cur.op = "update_user_settings"
    /\ cur.data # <<>>
    /\ IF field \notin SettingsFields
       THEN sess' = [sess EXCEPT ![s] = [cur EXCEPT !.data = rest, !.act = "none"]]
       ELSE IF field = "text2speech_api"
       THEN sess' = [sess EXCEPT ![s] = set]
       ELSE IF IsCustom(value)
       THEN IF EndpointIdOf(value) < 0
            THEN \* int() raises ValueError: except branch, db.rollback(), raise
                 sess' = [sess EXCEPT ![s] =
                            [IdleSession EXCEPT !.pc = "ret", !.op = cur.op,
                                                !.user_id = u, !.ret = "raised",
                                                !.wrote = cur.wrote]]
            ELSE sess' = [sess EXCEPT ![s] =
                            [set EXCEPT !.pc = "act_deact",
                                        !.endpoint_id = EndpointIdOf(value),
                                        !.endpoint_type = t]]
       ELSE \* deactivate_all_custom_endpoints: one UPDATE, no commit
            /\ MatchType(u, t) \cap LockedByOther(s) = {}
            /\ sess' = [sess EXCEPT ![s] =
                          [set EXCEPT !.wE = DeactivateWrites(u, t) @@ cur.wE,
                                      !.deacts = cur.deacts \cup {field}]]
    /\ UNCHANGED <<endpoints, nextId, settings, builtinSel>>
    /\ UNCHANGED RouteVars

\* activate_custom_endpoint called directly
BeginActivate(s, u, id, t) ==
    /\ sess[s].pc = "idle"
    /\ sess' = [sess EXCEPT ![s] =
                  [IdleSession EXCEPT !.pc = "act_deact", !.op = "activate_custom_endpoint",
                                      !.user_id = u, !.endpoint_id = id,
                                      !.endpoint_type = t, !.overlapped = Overlaps(s)]]
    /\ UNCHANGED <<endpoints, nextId, settings, builtinSel>>
    /\ UNCHANGED RouteVars

\* variant: the first statement is committed on its own
ActDeactivate_autocommit(s) ==
    LET cur == sess[s] IN
    /\ cur.pc = "act_deact"
    /\ MatchType(cur.user_id, cur.endpoint_type) \cap LockedByOther(s) = {}
    /\ endpoints' = CommitEndpoints(DeactivateWrites(cur.user_id, cur.endpoint_type))
    /\ sess' = [sess EXCEPT ![s] = [cur EXCEPT !.pc = "act_set"]]
    /\ UNCHANGED <<nextId, settings, builtinSel>>
    /\ UNCHANGED RouteVars

\* activate_custom_endpoint, first statement: deactivate all of (user, type)
ActDeactivate(s) ==
    LET cur == sess[s] IN
    /\ cur.pc = "act_deact"
    /\ MatchType(cur.user_id, cur.endpoint_type) \cap LockedByOther(s) = {}
    /\ sess' = [sess EXCEPT ![s] =
                  [cur EXCEPT !.pc = "act_set",
                              !.wE = DeactivateWrites(cur.user_id, cur.endpoint_type)
                                     @@ cur.wE]]
    /\ UNCHANGED <<endpoints, nextId, settings, builtinSel>>
    /\ UNCHANGED RouteVars

\* activate_custom_endpoint, second statement: activate the selected endpoint
ActSet(s) ==
    LET cur == sess[s]
        w == ActivateWrites(cur.user_id, cur.endpoint_id, cur.endpoint_type)
    IN
    /\ cur.pc = "act_set"
    /\ DOMAIN w \cap LockedByOther(s) = {}
    /\ sess' = [sess EXCEPT ![s] =
                  [cur EXCEPT !.pc = "act_commit", !.wE = w @@ cur.wE,
                              !.result = Cardinality(DOMAIN w)]]
    /\ UNCHANGED <<endpoints, nextId, settings, builtinSel>>
    /\ UNCHANGED RouteVars

\* activate_custom_endpoint: db.commit() and "return result > 0"
ActCommit(s) ==
    LET cur == sess[s]
        val == IF cur.result > 0 THEN "True" ELSE "False"
    IN
    /\ cur.pc = "act_commit"
    /\ endpoints' = CommitEndpoints(cur.wE)
    /\ settings' = CommitSettings(cur.user_id, cur.wS)
    /\ sess' = [sess EXCEPT ![s] =
                  IF cur.op = "activate_custom_endpoint"
                  THEN [cur EXCEPT !.pc = "ret", !.ret = val, !.act = val,
                                   !.wE = <<>>, !.wS = <<>>]
                  ELSE [cur EXCEPT !.pc = "loop", !.act = val,
                                   !.wE = <<>>, !.wS = <<>>,
                                   !.wrote = \/ cur.wrote
                                             \/ endpoints' # endpoints
                                             \/ settings' # settings]]
    /\ builtinSel' = {p \in builtinSel : <<p[1], PrefCap(p[2])>>
                                            \notin Activated(endpoints, endpoints')}
    /\ UNCHANGED nextId
    /\ UNCHANGED RouteVars

\* update_user_settings after the loop: db.commit(), db.refresh, return settings
FinalCommit(s) ==
    LET cur == sess[s] IN
    /\ cur.pc = "loop"
    /\ cur.data = <<>>
    /\ endpoints' = CommitEndpoints(cur.wE)
    /\ settings' = CommitSettings(cur.user_id, cur.wS)
    /\ sess' = [sess EXCEPT ![s] =
                  [cur EXCEPT !.pc = "ret", !.ret = "settings", !.act = "none",
                              !.wE = <<>>, !.wS = <<>>]]
    /\ builtinSel' = {p \in builtinSel : <<p[1], PrefCap(p[2])>>
                                            \notin Activated(endpoints, endpoints')}
                        \cup {<<cur.user_id, f>> : f \in cur.deacts}
    /\ UNCHANGED nextId
    /\ UNCHANGED RouteVars

\* a statement or the commit raises: except branch, db.rollback(), raise
DbError(s) ==
    LET cur == sess[s] IN
    /\ cur.pc \in {"loop", "act_deact", "act_set", "act_commit"}
    /\ sess' = [sess EXCEPT ![s] =
                  [IdleSession EXCEPT !.pc = "ret", !.op = cur.op,
                                      !.user_id = cur.user_id,
                                      !.endpoint_id = cur.endpoint_id,
                                      !.endpoint_type = cur.endpoint_type,
                                      !.overlapped = cur.overlapped,
                                      !.failedAt = cur.pc,
                                      !.wrote = cur.wrote,
                                      !.ret = "raised"]]
    /\ UNCHANGED <<endpoints, nextId, settings, builtinSel>>
    /\ UNCHANGED RouteVars

\* the caller has the return value; the request's session is closed
Return(s) ==
    /\ sess[s].pc = "ret"
    /\ sess' = [sess EXCEPT ![s] = IdleSession]
    /\ UNCHANGED <<endpoints, nextId, settings, builtinSel>>
    /\ UNCHANGED RouteVars

(***************************************************************************)
(* Custom endpoint CRUD: api/v1/endpoints/developer.py                     *)
(***************************************************************************)
\* POST /custom-endpoints: is_active is taken from the request body
CreateEndpoint(u, t, n, a) ==
    /\ AllIdle
    /\ nextId <= MaxEndpoints
    /\ endpoints' = (nextId :> Row(u, t, n, a)) @@ endpoints
    /\ nextId' = nextId + 1
    /\ builtinSel' = {p \in builtinSel : <<p[1], PrefCap(p[2])>>
                                            \notin Activated(endpoints, endpoints')}
    /\ UNCHANGED <<settings, sess>>
    /\ UNCHANGED RouteVars

\* PUT /custom-endpoints/{id}: setattr of every field of the body, is_active included
UpdateEndpoint(u, id, a) ==
    /\ AllIdle
    /\ id \in DOMAIN endpoints
    /\ endpoints[id].user_id = u
    /\ endpoints' = [endpoints EXCEPT ![id].is_active = a]
    /\ builtinSel' = {p \in builtinSel : <<p[1], PrefCap(p[2])>>
                                            \notin Activated(endpoints, endpoints')}
    /\ UNCHANGED <<nextId, settings, sess>>
    /\ UNCHANGED RouteVars

\* DELETE /custom-endpoints/{id}
DeleteEndpoint(u, id) ==
    /\ AllIdle
    /\ id \in DOMAIN endpoints
    /\ endpoints[id].user_id = u
    /\ endpoints' = [i \in DOMAIN endpoints \ {id} |-> endpoints[i]]
    /\ UNCHANGED <<nextId, settings, sess, builtinSel>>
    /\ UNCHANGED RouteVars



(***************************************************************************)
(* Routing core and cache: services/translation.py, speech2text.py,        *)
(* text2speech.py                                                          *)
(***************************************************************************)
Capabilities == {"translation", "speech2text", "text2speech"}

\* columns of the CustomEndpoint model the services import
CustomEndpointColumns == {"id", "user_id", "name", "endpoint_type", "api_url", "api_key",
                          "meta_data", "is_active", "created_at", "updated_at"}

NoValue == [source_text |-> "", translated_text |-> "", source_language |-> "",
            target_language |-> "", translation_engine |-> ""]

IdleReq == [pc |-> "idle", cap |-> "none", user_id |-> 0, text |-> "", src |-> "",
            dst |-> "", endpoint |-> 0, result |-> "none", value |-> NoValue,
            customCalls |-> 0, providerCalls |-> 0, customFailed |-> FALSE,
            providerFailed |-> FALSE, hit |-> FALSE, warm |-> FALSE,
            faults |-> {}, answer |-> "none"]

\* variant: the caller's id is part of the key
GenerateCacheKey_peruser(text, source_lang, target_lang, engine) ==
    "translation:" \o ToString(req.user_id) \o ":" \o text \o ":" \o source_lang
        \o ":" \o target_lang \o ":" \o engine

\* _generate_cache_key: the content string that is hashed (md5 taken as injective)
GenerateCacheKey(text, source_lang, target_lang, engine) ==
    "translation:" \o text \o ":" \o source_lang \o ":" \o target_lang \o ":" \o engine

\* what the Google provider answers for a request
GoogleText(text, source_lang, target_lang) ==
    "<" \o text \o "|" \o source_lang \o "|" \o target_lang \o ">"

\* translation_data built by translate_with_google from the provider's answer
TranslationData(text, source_lang, target_lang) ==
    [source_text |-> text,
     translated_text |-> GoogleText(text, source_lang, target_lang),
     source_language |-> source_lang,
     target_language |-> target_lang,
     translation_engine |-> "google"]

\* TranslationResponse built by _translate_with_custom_endpoint from a 200 answer
CustomData(name, text, source_lang, target_lang) ==
    [source_text |-> text,
     translated_text |-> "{" \o text \o "}",
     source_language |-> source_lang,
     target_language |-> target_lang,
     translation_engine |-> "custom_" \o name]

\* result of a capability other than translation (transcript or audio)
Payload(engine) == [NoValue EXCEPT !.translated_text = "payload",
                                   !.translation_engine = engine]

\* the custom endpoint resolvers: rows the query can return for user u
ActiveEndpoints(cap, u) ==
    IF u = Anonymous THEN {}
    ELSE IF cap = "text2speech"
    THEN IF u \notin DOMAIN settings THEN {}
         ELSE {id \in ActiveOf(u, "text2speech") :
                  endpoints[id].name = settings[u].text2speech_api}
    ELSE ActiveOf(u, cap)

\* what the remote custom endpoint answers to a request that reaches it:
\* 200 with a value, 200 without one (speech2text only), or non-200 / timeout
EndpointAnswers(cap) ==
    IF cap = "speech2text" THEN {"ok", "empty", "fail"} ELSE {"ok", "fail"}

\* outcomes of the custom endpoint call of a capability
CustomOutcomes(cap) ==
    IF cap = "speech2text"
    THEN \* _transcribe_with_custom_endpoint reads endpoint.headers and
         \* endpoint.endpoint_url inside its try block
         IF {"headers", "endpoint_url"} \subseteq CustomEndpointColumns
         THEN {"ok", "empty", "fail"} ELSE {"fail"}
    ELSE {"ok", "fail"}

\* variant: the custom endpoint's exception is not caught
AfterCustomFailure_raise(cap) == "raise"

\* outcome of the custom call when the remote endpoint would give this answer
CustomOutcome(cap, answer) ==
    IF answer \in CustomOutcomes(cap) THEN answer ELSE "fail"

\* where a request goes after its custom endpoint call failed
AfterCustomFailure(cap) ==
    IF cap = "translation" THEN "cache_get"
    ELSE IF cap = "speech2text" THEN "provider"
    ELSE "raise"

\* where a request goes when the resolver returned no endpoint
BuiltinEntry(cap) == IF cap = "translation" THEN "cache_get" ELSE "provider"

\* variant: every service swallows the provider's exception
AfterProviderFailure_swallow(cap) == "None"

\* what the capability service hands to its caller when the built-in provider fails
AfterProviderFailure(cap) == IF cap = "speech2text" THEN "None" ELSE "error"

StartRequest(cap, u, text, src, dst) ==
    /\ req.pc = "idle"
    /\ req' = [IdleReq EXCEPT !.pc = "resolve", !.cap = cap, !.user_id = u,
                              !.text = text, !.src = src, !.dst = dst]
    /\ UNCHANGED <<endpoints, nextId, settings, sess, http, translations, groq, cache, served, builtinSel>>

\* variant: the exception of a failing query reaches the caller
Resolve_raise(dbOk) ==
    /\ req.pc = "resolve"
    /\ \/ /\ dbOk
          /\ \E id \in ActiveEndpoints(req.cap, req.user_id) :
                req' = [req EXCEPT !.pc = "custom", !.endpoint = id]
       \/ /\ dbOk /\ ActiveEndpoints(req.cap, req.user_id) = {}
          /\ req' = [req EXCEPT !.pc = BuiltinEntry(req.cap)]
       \/ /\ ~dbOk
          /\ req' = IF req.user_id = Anonymous
                    THEN [req EXCEPT !.pc = BuiltinEntry(req.cap)]
                    ELSE [req EXCEPT !.pc = "done", !.result = "error",
                                     !.faults = @ \cup {"lookup"}]
    /\ UNCHANGED <<endpoints, nextId, settings, sess, http, translations, groq, cache, served, builtinSel>>

\* the resolver query; a failing query is logged and gives None
Resolve(dbOk) ==
    /\ req.pc = "resolve"
    /\ \/ /\ dbOk
          /\ \E id \in ActiveEndpoints(req.cap, req.user_id) :
                req' = [req EXCEPT !.pc = "custom", !.endpoint = id]
       \/ /\ ~dbOk \/ ActiveEndpoints(req.cap, req.user_id) = {}
          /\ req' = [req EXCEPT !.pc = BuiltinEntry(req.cap),
                                !.faults = IF ~dbOk /\ req.user_id # Anonymous
                                           THEN @ \cup {"lookup"} ELSE @]
    /\ UNCHANGED <<endpoints, nextId, settings, sess, http, translations, groq, cache, served, builtinSel>>

\* variant: a successful custom translation is stored in the cache
CustomCall_cached(answer) ==
    LET outcome == CustomOutcome(req.cap, answer)
        called == [req EXCEPT !.customCalls = @ + 1, !.answer = answer]
    IN
    /\ req.pc = "custom"
    /\ answer \in EndpointAnswers(req.cap)
    /\ req' = IF outcome = "ok"
              THEN [called EXCEPT !.pc = "done", !.result = "ok",
                                  !.value = IF req.cap = "translation"
                                            THEN CustomData(endpoints[req.endpoint].name,
                                                            req.text, req.src, req.dst)
                                            ELSE Payload("custom")]
              ELSE IF outcome = "empty"
              THEN [called EXCEPT !.pc = "done", !.result = "None"]
              ELSE IF AfterCustomFailure(req.cap) = "raise"
              THEN [called EXCEPT !.pc = "done", !.result = "error",
                                  !.customFailed = TRUE]
              ELSE [called EXCEPT !.pc = AfterCustomFailure(req.cap),
                                  !.customFailed = TRUE]
    /\ cache' = IF outcome = "ok" /\ req.cap = "translation"
                THEN (GenerateCacheKey(req.text, req.src, req.dst, "google")
                        :> CustomData(endpoints[req.endpoint].name, req.text, req.src, req.dst))
                     @@ cache
                ELSE cache
    /\ UNCHANGED <<endpoints, nextId, settings, sess, http, translations, groq, served, builtinSel>>

\* the custom endpoint call and what call_api / translate_text do with its outcome
CustomCall(answer) ==
    LET outcome == CustomOutcome(req.cap, answer)
        called == [req EXCEPT !.customCalls = @ + 1, !.answer = answer]
    IN
    /\ req.pc = "custom"
    /\ answer \in EndpointAnswers(req.cap)
    /\ req' = IF outcome = "ok"
              THEN [called EXCEPT !.pc = "done", !.result = "ok",
                                  !.value = IF req.cap = "translation"
                                            THEN CustomData(endpoints[req.endpoint].name,
                                                            req.text, req.src, req.dst)
                                            ELSE Payload("custom")]
              ELSE IF outcome = "empty"
              THEN [called EXCEPT !.pc = "done", !.result = "None"]
              ELSE IF AfterCustomFailure(req.cap) = "raise"
              THEN [called EXCEPT !.pc = "done", !.result = "error",
                                  !.customFailed = TRUE]
              ELSE [called EXCEPT !.pc = AfterCustomFailure(req.cap),
                                  !.customFailed = TRUE]
    /\ UNCHANGED <<endpoints, nextId, settings, sess, http, translations, groq, cache, served, builtinSel>>

\* history: the provider answered this content, the answer was cached, no TTL expiry since
Warm(text, source_lang, target_lang) ==
    \E e \in served : e[1] = text /\ e[2] = source_lang /\ e[3] = target_lang

\* variant: a failing get makes the service start the request over
CacheGet_restart(getOk) ==
    LET key == GenerateCacheKey(req.text, req.src, req.dst, "google") IN
    /\ req.pc = "cache_get"
    /\ req' = IF getOk /\ key \in DOMAIN cache
              THEN [req EXCEPT !.pc = "done", !.result = "ok", !.value = cache[key],
                               !.hit = TRUE,
                               !.warm = Warm(req.text, req.src, req.dst)]
              ELSE IF getOk
              THEN [req EXCEPT !.pc = "provider",
                               !.warm = Warm(req.text, req.src, req.dst)]
              ELSE [req EXCEPT !.pc = "resolve", !.faults = @ \cup {"get"}]
    /\ UNCHANGED <<endpoints, nextId, settings, sess, http, translations, groq, cache, served, builtinSel>>

\* translate_with_google: _get_cached_translation; a failing get is a miss
CacheGet(getOk) ==
    LET key == GenerateCacheKey(req.text, req.src, req.dst, "google") IN
    /\ req.pc = "cache_get"
    /\ req' = IF getOk /\ key \in DOMAIN cache
              THEN [req EXCEPT !.pc = "done", !.result = "ok", !.value = cache[key],
                               !.hit = TRUE,
                               !.warm = Warm(req.text, req.src, req.dst)]
              ELSE [req EXCEPT !.pc = "provider",
                               !.warm = getOk /\ Warm(req.text, req.src, req.dst),
                               !.faults = IF getOk THEN @ ELSE @ \cup {"get"}]
    /\ UNCHANGED <<endpoints, nextId, settings, sess, http, translations, groq, cache, served, builtinSel>>

\* variant: an empty transcript makes the service ask the provider again
ProviderOk_retry(putOk, empty) ==
    LET key == GenerateCacheKey(req.text, req.src, req.dst, "google")
        data == TranslationData(req.text, req.src, req.dst)
    IN
    /\ req.pc = "provider"
    /\ req.cap # "translation" => putOk
    /\ req.cap # "speech2text" => ~empty
    /\ req' = [req EXCEPT !.pc = IF empty /\ req.providerCalls = 0 THEN "provider" ELSE "done",
                          !.result = IF empty THEN "None" ELSE "ok",
                          !.value = IF req.cap = "translation" THEN data
                                    ELSE IF empty THEN NoValue ELSE Payload("builtin"),
                          !.providerCalls = @ + 1,
                          !.faults = IF putOk THEN @ ELSE @ \cup {"put"}]
    /\ IF req.cap = "translation" /\ putOk
       THEN /\ cache' = (key :> data) @@ cache
            /\ served' = {e \in served : <<e[1], e[2], e[3]>> # <<req.text, req.src, req.dst>>}
                          \cup {<<req.text, req.src, req.dst, req.user_id>>}
       ELSE UNCHANGED <<cache, served>>
    /\ UNCHANGED <<endpoints, nextId, settings, sess, http, translations, groq, builtinSel>>

\* the built-in provider answers: translate_with_google caches and returns
\* (putOk: setex succeeded), call_grop_api returns the transcript or None,
\* call_elevenlabs_api returns the audio
ProviderOk(putOk, empty) ==
    LET key == GenerateCacheKey(req.text, req.src, req.dst, "google")
        data == TranslationData(req.text, req.src, req.dst)
    IN
    /\ req.pc = "provider"
    /\ req.cap # "translation" => putOk
    /\ req.cap # "speech2text" => ~empty
    /\ req' = [req EXCEPT !.pc = "done",
                          !.result = IF empty THEN "None" ELSE "ok",
                          !.value = IF req.cap = "translation" THEN data
                                    ELSE IF empty THEN NoValue ELSE Payload("builtin"),
                          !.providerCalls = @ + 1,
                          !.faults = IF putOk THEN @ ELSE @ \cup {"put"}]
    /\ IF req.cap = "translation" /\ putOk
       THEN /\ cache' = (key :> data) @@ cache
            /\ served' = {e \in served : <<e[1], e[2], e[3]>> # <<req.text, req.src, req.dst>>}
                          \cup {<<req.text, req.src, req.dst, req.user_id>>}
       ELSE UNCHANGED <<cache, served>>
    /\ UNCHANGED <<endpoints, nextId, settings, sess, http, translations, groq, builtinSel>>

\* variant: the failure is stored under the request's key
ProviderFail_negcache ==
    LET key == GenerateCacheKey(req.text, req.src, req.dst, "google") IN
    /\ req.pc = "provider"
    /\ req' = [req EXCEPT !.pc = "done", !.result = AfterProviderFailure(req.cap),
                          !.providerCalls = @ + 1, !.providerFailed = TRUE]
    /\ cache' = IF req.cap = "translation"
                THEN (key :> [NoValue EXCEPT !.translation_engine = "error"]) @@ cache
                ELSE cache
    /\ UNCHANGED <<endpoints, nextId, settings, sess, http, translations, groq, served, builtinSel>>

\* the built-in provider fails (non-200, timeout, exception)
ProviderFail ==
    /\ req.pc = "provider"
    /\ req' = [req EXCEPT !.pc = "done", !.result = AfterProviderFailure(req.cap),
                          !.providerCalls = @ + 1, !.providerFailed = TRUE]
    /\ UNCHANGED <<endpoints, nextId, settings, sess, http, translations, groq, cache, served, builtinSel>>

\* the caller has the result
Finish ==
    /\ req.pc = "done"
    /\ req' = IdleReq
    /\ UNCHANGED <<endpoints, nextId, settings, sess, http, translations, groq, cache, served, builtinSel>>

\* redis drops an entry when its TTL (setex) runs out
Expire(key) ==
    /\ key \in DOMAIN cache
    /\ cache' = [k \in DOMAIN cache \ {key} |-> cache[k]]
    /\ served' = {c \in served : GenerateCacheKey(c[1], c[2], c[3], "google") # key}
    /\ UNCHANGED <<endpoints, nextId, settings, sess, http, translations, groq, req, builtinSel>>

(***************************************************************************)
(* detect_language                                                         *)
(***************************************************************************)
MinDetectLen == 5     \* stripped texts shorter than this get the fixed default
SampleLen == 100      \* characters of the text that make the detection cache key

Detection(lang, conf) == [detected_language |-> lang, confidence |-> conf]

\* _generate_detection_cache_key (md5 taken as injective)
GenerateDetectionCacheKey(text) ==
    "langdetect:" \o (IF Len(text) > SampleLen THEN SubSeq(text, 1, SampleLen) ELSE text)

\* what langdetect answers first for a text it can classify
BestDetection(text) == Detection("lang(" \o text \o ")", "prob")

StartDetect(text) ==
    /\ req.pc = "idle"
    /\ req' = [IdleReq EXCEPT !.pc = "det_check", !.cap = "detect", !.text = text]
    /\ UNCHANGED <<endpoints, nextId, settings, sess, http, translations, groq, cache,
                   served, builtinSel>>

\* variant: the length test is made on the text as given
DetectCheck_unstripped ==
    /\ req.pc = "det_check"
    /\ req' = IF Strip(req.text) = ""
              THEN [req EXCEPT !.pc = "done", !.result = "ok",
                               !.value = Detection("unknown", "0.0")]
              ELSE IF Len(req.text) < MinDetectLen
              THEN [req EXCEPT !.pc = "done", !.result = "ok",
                               !.value = Detection("en", "0.5")]
              ELSE [req EXCEPT !.pc = "det_cache"]
    /\ UNCHANGED <<endpoints, nextId, settings, sess, http, translations, groq, cache,
                   served, builtinSel>>

\* the two early returns: blank text, and stripped text shorter than 5 characters
DetectCheck ==
    /\ req.pc = "det_check"
    /\ req' = IF Strip(req.text) = ""
              THEN [req EXCEPT !.pc = "done", !.result = "ok",
                               !.value = Detection("unknown", "0.0")]
              ELSE IF Len(Strip(req.text)) < MinDetectLen
              THEN [req EXCEPT !.pc = "done", !.result = "ok",
                               !.value = Detection("en", "0.5")]
              ELSE [req EXCEPT !.pc = "det_cache"]
    /\ UNCHANGED <<endpoints, nextId, settings, sess, http, translations, groq, cache,
                   served, builtinSel>>

\* variant: a failing cache get ends the call with an error
DetectCacheGet_raise(getOk) ==
    LET key == GenerateDetectionCacheKey(req.text) IN
    /\ req.pc = "det_cache"
    /\ req' = IF ~getOk
              THEN [req EXCEPT !.pc = "done", !.result = "error", !.faults = @ \cup {"get"}]
              ELSE IF key \in DOMAIN cache
              THEN [req EXCEPT !.pc = "done", !.result = "ok", !.value = cache[key],
                               !.hit = TRUE]
              ELSE [req EXCEPT !.pc = "detector"]
    /\ UNCHANGED <<endpoints, nextId, settings, sess, http, translations, groq, cache,
                   served, builtinSel>>

\* the cache lookup of detect_language; a failing get is a miss
DetectCacheGet(getOk) ==
    LET key == GenerateDetectionCacheKey(req.text) IN
    /\ req.pc = "det_cache"
    /\ req' = IF getOk /\ key \in DOMAIN cache
              THEN [req EXCEPT !.pc = "done", !.result = "ok", !.value = cache[key],
                               !.hit = TRUE]
              ELSE [req EXCEPT !.pc = "detector",
                               !.faults = IF getOk THEN @ ELSE @ \cup {"get"}]
    /\ UNCHANGED <<endpoints, nextId, settings, sess, http, translations, groq, cache,
                   served, builtinSel>>

\* detect_langs answered: the best detection is cached (24 h) and returned;
\* an empty answer gives the default at 0.5 and is not cached
DetectorOk(putOk, empty) ==
    LET key == GenerateDetectionCacheKey(req.text)
        data == BestDetection(req.text)
    IN
    /\ req.pc = "detector"
    /\ empty => putOk
    /\ req' = [req EXCEPT !.pc = "done", !.result = "ok",
                          !.value = IF empty THEN Detection("en", "0.5") ELSE data,
                          !.providerCalls = @ + 1,
                          !.faults = IF putOk THEN @ ELSE @ \cup {"put"}]
    /\ cache' = IF ~empty /\ putOk THEN (key :> data) @@ cache ELSE cache
    /\ UNCHANGED <<endpoints, nextId, settings, sess, http, translations, groq, served,
                   builtinSel>>

\* variant: the fallback answer is cached like a detection
DetectorFail_cached ==
    LET key == GenerateDetectionCacheKey(req.text) IN
    /\ req.pc = "detector"
    /\ req' = [req EXCEPT !.pc = "done", !.result = "ok",
                          !.value = Detection("en", "0.3"),
                          !.providerCalls = @ + 1, !.providerFailed = TRUE]
    /\ cache' = (key :> Detection("en", "0.3")) @@ cache
    /\ UNCHANGED <<endpoints, nextId, settings, sess, http, translations, groq, served,
                   builtinSel>>

\* detect_langs raised: logged, the default at 0.3 is returned
DetectorFail ==
    /\ req.pc = "detector"
    /\ req' = [req EXCEPT !.pc = "done", !.result = "ok",
                          !.value = Detection("en", "0.3"),
                          !.providerCalls = @ + 1, !.providerFailed = TRUE]
    /\ UNCHANGED <<endpoints, nextId, settings, sess, http, translations, groq, cache,
                   served, builtinSel>>

(***************************************************************************)
(* Built-in speech-to-text: the segment filter of call_grop_api             *)
(***************************************************************************)
MaxSegments == 2      \* segments in one provider answer

\* the two thresholds, in hundredths
AvgLogprobThreshold == -50
NoSpeechThreshold == 15

\* segment.get(key, None) is not None
HasValue(segment, key) == key \in DOMAIN segment

\* segment.get("text", "")
SegmentText(segment) == IF "text" \in DOMAIN segment THEN segment.text ELSE ""

\* variant: the no-speech bound is inclusive
Retained_inclusive(segment) ==
    /\ HasValue(segment, "avg_logprob")
    /\ segment.avg_logprob > AvgLogprobThreshold
    /\ HasValue(segment, "no_speech_prob")
    /\ segment.no_speech_prob <= NoSpeechThreshold

\* the condition under which the loop appends a segment
Retained(segment) ==
    /\ HasValue(segment, "avg_logprob")
    /\ segment.avg_logprob > AvgLogprobThreshold
    /\ HasValue(segment, "no_speech_prob")
    /\ segment.no_speech_prob < NoSpeechThreshold

\* the for loop: fulltext += text.strip() + " " for every retained segment
RECURSIVE FullText(_)
FullText(segments) ==
    IF segments = <<>> THEN ""
    ELSE (IF Retained(Head(segments)) THEN Strip(SegmentText(Head(segments))) \o " " ELSE "")
         \o FullText(Tail(segments))

IdleGroq == [pc |-> "idle", segments |-> <<>>, returns |-> "pending", text |-> "",
             raised |-> FALSE]

\* the provider answered: build the transcript, return it or None
GroqTranscribe ==
    /\ groq.pc = "called"
    /\ LET fulltext == FullText(groq.segments) IN
       groq' = IF fulltext # ""
               THEN [groq EXCEPT !.pc = "returned", !.returns = "text",
                                 !.text = Strip(fulltext)]
               ELSE [groq EXCEPT !.pc = "returned", !.returns = "None"]
    /\ UNCHANGED <<endpoints, nextId, settings, sess, req, cache, served, builtinSel,
                   http, translations>>

\* the provider call raised: logged, None returned
GroqFail ==
    /\ groq.pc = "called"
    /\ groq' = [groq EXCEPT !.pc = "returned", !.returns = "None", !.raised = TRUE]
    /\ UNCHANGED <<endpoints, nextId, settings, sess, req, cache, served, builtinSel,
                   http, translations>>

(***************************************************************************)
(* HTTP handlers                                                           *)
(***************************************************************************)
MaxTranslations == 2  \* rows ever inserted into translations

HTTP_200_OK == 200
HTTP_401_UNAUTHORIZED == 401
HTTP_403_FORBIDDEN == 403
HTTP_404_NOT_FOUND == 404
HTTP_422_UNPROCESSABLE == 422
HTTP_500_INTERNAL_SERVER_ERROR == 500

\* table users: username -> id
UsersTable == ("alice" :> 1) @@ ("bob" :> 2)

\* bearer tokens: whether jwt.decode accepts them, and their "sub"
Tokens == [valid : BOOLEAN, sub : {"alice", "ghost"}]

\* the Authorization header: absent, or one token
Credentials == {<<>>} \cup {<<t>> : t \in Tokens}

\* None, as a username
NoUsername == ""

\* verify_token: the username of a token jwt.decode accepts, None otherwise
VerifyToken(token) == IF token.valid THEN token.sub ELSE NoUsername

\* get_user_by_username: the user's id, 0 when there is no such user
GetUserByUsername(username) ==
    IF username \in DOMAIN UsersTable THEN UsersTable[username] ELSE 0

\* variant: the token's subject is used without verification
OptionalUserId_unverified(credentials) ==
    IF credentials = <<>> THEN 0
    ELSE GetUserByUsername(credentials[1].sub)

\* the optional authentication of POST /translate and POST /transcribe:
\* the user's id, 0 (None) without a header, a verifiable token or a user
OptionalUserId(credentials) ==
    IF credentials = <<>> THEN 0
    ELSE LET username == VerifyToken(credentials[1]) IN
         IF username = NoUsername THEN 0 ELSE GetUserByUsername(username)

\* the except clause that closes every handler: whatever was raised inside the
\* try block, an HTTPException included, leaves as a 500
RaisedInTry(status_code) == HTTP_500_INTERNAL_SERVER_ERROR

\* the authentication prelude of the protected handlers: the status it ends the
\* request with (0: the handler goes on) and the user
RequireUser(credentials) ==
    IF credentials = <<>>
    THEN [status |-> HTTP_401_UNAUTHORIZED, user_id |-> 0]
    ELSE LET username == VerifyToken(credentials[1]) IN
         IF username = NoUsername
         THEN [status |-> RaisedInTry(HTTP_401_UNAUTHORIZED), user_id |-> 0]
         ELSE IF GetUserByUsername(username) = 0
         THEN [status |-> RaisedInTry(HTTP_404_NOT_FOUND), user_id |-> 0]
         ELSE [status |-> 0, user_id |-> GetUserByUsername(username)]

NoTranslations == [next |-> 1, rows |-> <<>>]

TranslationRow(u, text, fav) == [user_id |-> u, source_text |-> text, is_favorite |-> fav]

IdleHttp == [pc |-> "idle", route |-> "none", credentials |-> <<>>, user_id |-> 0,
             engine |-> "", size |-> 0, status |-> 0, id |-> 0, is_favorite |-> FALSE,
             text |-> "", translated_text |-> "", listing |-> {}]

\* POST /translate up to the provider call: optional authentication, then the
\* engine hint picks translate_with_google or translate_with_openai (which
\* TranslationService does not define)
TranslateBegin(credentials, engine, text, source_language, target_language) ==
    /\ http.pc = "idle" /\ req.pc = "idle"
    /\ translations.next <= MaxTranslations
    /\ LET started == [IdleHttp EXCEPT !.route = "translate",
                                       !.credentials = credentials,
                                       !.user_id = OptionalUserId(credentials),
                                       !.engine = engine]
       IN IF engine = "openai"
          THEN /\ http' = [started EXCEPT !.pc = "done",
                                          !.status = RaisedInTry(HTTP_500_INTERNAL_SERVER_ERROR)]
               /\ req' = req
          ELSE /\ http' = [started EXCEPT !.pc = "google"]
               /\ req' = [IdleReq EXCEPT !.pc = "cache_get", !.cap = "translation",
                                         !.text = text, !.src = source_language,
                                         !.dst = target_language]
    /\ UNCHANGED <<endpoints, nextId, settings, sess, cache, served, builtinSel,
                   translations, groq>>

\* POST /translate after translate_with_google returned or raised: the row is
\* saved for a logged-in user only, the response carries its id
TranslateEnd(commitOk) ==
    /\ http.pc = "google" /\ req.pc = "done"
    /\ http.user_id = 0 => commitOk
    /\ IF req.result = "error" \/ ~commitOk
       THEN /\ http' = [http EXCEPT !.pc = "done",
                                    !.status = RaisedInTry(HTTP_500_INTERNAL_SERVER_ERROR)]
            /\ translations' = translations
       ELSE IF http.user_id # 0
       THEN /\ translations' =
                 [next |-> translations.next + 1,
                  rows |-> (translations.next :> TranslationRow(http.user_id, req.text, FALSE))
                           @@ translations.rows]
            /\ http' = [http EXCEPT !.pc = "done", !.status = HTTP_200_OK,
                                    !.id = translations.next, !.is_favorite = FALSE,
                                    !.text = req.value.source_text,
                                    !.translated_text = req.value.translated_text]
       ELSE /\ translations' = translations
            /\ http' = [http EXCEPT !.pc = "done", !.status = HTTP_200_OK,
                                    !.id = 0, !.is_favorite = FALSE,
                                    !.text = req.value.source_text,
                                    !.translated_text = req.value.translated_text]
    /\ UNCHANGED <<endpoints, nextId, settings, sess, req, cache, served, builtinSel, groq>>

\* POST /transcribe up to SpeechToTextService.call_api: optional
\* authentication, the 422 of a request without a file (raised inside the try
\* block), then the audio bytes go to call_api whatever their size
TranscribeBegin(credentials, hasFile, size) ==
    /\ http.pc = "idle" /\ req.pc = "idle"
    /\ LET started == [IdleHttp EXCEPT !.route = "transcribe",
                                       !.credentials = credentials,
                                       !.user_id = OptionalUserId(credentials),
                                       !.size = size]
       IN IF ~hasFile
          THEN /\ http' = [started EXCEPT !.pc = "done", !.size = 0,
                                          !.status = RaisedInTry(HTTP_422_UNPROCESSABLE)]
               /\ req' = req
          ELSE /\ http' = [started EXCEPT !.pc = "stt"]
               /\ req' = [IdleReq EXCEPT !.pc = "resolve", !.cap = "speech2text",
                                         !.user_id = OptionalUserId(credentials)]
    /\ UNCHANGED <<endpoints, nextId, settings, sess, cache, served, builtinSel,
                   translations, groq>>

\* POST /transcribe after call_api: no transcript ends the request with empty
\* texts, a transcript goes to detect_language
TranscribeAfterStt ==
    /\ http.pc = "stt" /\ req.pc = "done"
    /\ IF req.result = "error"
       THEN /\ http' = [http EXCEPT !.pc = "done",
                                    !.status = RaisedInTry(HTTP_500_INTERNAL_SERVER_ERROR)]
            /\ req' = req
       ELSE IF req.result = "None" \/ req.value.translated_text = ""
       THEN /\ http' = [http EXCEPT !.pc = "done", !.status = HTTP_200_OK]
            /\ req' = req
       ELSE /\ http' = [http EXCEPT !.pc = "detect", !.text = req.value.translated_text]
            /\ req' = [IdleReq EXCEPT !.pc = "det_check", !.cap = "detect",
                                      !.text = req.value.translated_text]
    /\ UNCHANGED <<endpoints, nextId, settings, sess, cache, served, builtinSel,
                   translations, groq>>

\* POST /transcribe after detect_language: translate_text for the caller
TranscribeAfterDetect(target_language) ==
    /\ http.pc = "detect" /\ req.pc = "done"
    /\ http' = [http EXCEPT !.pc = "translate"]
    /\ req' = [IdleReq EXCEPT !.pc = "resolve", !.cap = "translation",
                              !.user_id = http.user_id, !.text = http.text,
                              !.src = IF req.value.detected_language # ""
                                      THEN req.value.detected_language ELSE "auto",
                              !.dst = target_language]
    /\ UNCHANGED <<endpoints, nextId, settings, sess, cache, served, builtinSel,
                   translations, groq>>

\* variant: the failed translation fails the whole request
TranscribeEnd_raise ==
    /\ http.pc = "translate" /\ req.pc = "done"
    /\ http' = IF req.result = "error"
               THEN [http EXCEPT !.pc = "done",
                                 !.status = RaisedInTry(HTTP_500_INTERNAL_SERVER_ERROR)]
               ELSE [http EXCEPT !.pc = "done", !.status = HTTP_200_OK,
                                 !.translated_text = req.value.translated_text]
    /\ UNCHANGED <<endpoints, nextId, settings, sess, req, cache, served, builtinSel,
                   translations, groq>>

\* POST /transcribe after translate_text: a failed translation still answers
\* with the transcript
TranscribeEnd ==
    /\ http.pc = "translate" /\ req.pc = "done"
    /\ http' = [http EXCEPT !.pc = "done", !.status = HTTP_200_OK,
                            !.translated_text = IF req.result = "error" THEN ""
                                                ELSE req.value.translated_text]
    /\ UNCHANGED <<endpoints, nextId, settings, sess, req, cache, served, builtinSel,
                   translations, groq>>

\* the longest text POST /synthesize accepts
MaxSynthesizeLen == 5000

\* POST /synthesize up to TextToSpeechService.call_api: optional
\* authentication, then the two validations, whose HTTPException(422) is
\* raised inside the try block
SynthesizeBegin(credentials, text) ==
    /\ http.pc = "idle" /\ req.pc = "idle"
    /\ LET started == [IdleHttp EXCEPT !.route = "synthesize",
                                       !.credentials = credentials,
                                       !.user_id = OptionalUserId(credentials),
                                       !.text = text, !.size = Len(text)]
       IN IF Strip(text) = "" \/ Len(text) > MaxSynthesizeLen
          THEN /\ http' = [started EXCEPT !.pc = "done",
                                          !.status = RaisedInTry(HTTP_422_UNPROCESSABLE)]
               /\ req' = req
          ELSE /\ http' = [started EXCEPT !.pc = "tts"]
               /\ req' = [IdleReq EXCEPT !.pc = "resolve", !.cap = "text2speech",
                                         !.user_id = OptionalUserId(credentials),
                                         !.text = text]
    /\ UNCHANGED <<endpoints, nextId, settings, sess, cache, served, builtinSel,
                   translations, groq>>

\* POST /synthesize after call_api: the audio, or the 500 of whatever it raised
SynthesizeEnd ==
    /\ http.pc = "tts" /\ req.pc = "done"
    /\ http' = [http EXCEPT !.pc = "done",
                            !.status = IF req.result = "ok" THEN HTTP_200_OK
                                       ELSE RaisedInTry(HTTP_500_INTERNAL_SERVER_ERROR)]
    /\ UNCHANGED <<endpoints, nextId, settings, sess, req, cache, served, builtinSel,
                   translations, groq>>

\* GET /favorites
GetFavorites(credentials) ==
    LET auth == RequireUser(credentials) IN
    /\ http.pc = "idle" /\ req.pc = "idle"
    /\ http' = IF auth.status # 0
               THEN [IdleHttp EXCEPT !.pc = "done", !.route = "favorites",
                                     !.credentials = credentials, !.status = auth.status]
               ELSE [IdleHttp EXCEPT !.pc = "done", !.route = "favorites",
                                     !.credentials = credentials, !.user_id = auth.user_id,
                                     !.status = HTTP_200_OK,
                                     !.listing = {i \in DOMAIN translations.rows :
                                                    /\ translations.rows[i].user_id = auth.user_id
                                                    /\ translations.rows[i].is_favorite}]
    /\ UNCHANGED <<endpoints, nextId, settings, sess, req, cache, served, builtinSel,
                   translations, groq>>

\* GET /history: optional authentication; the caller's rows, none for anonymous
GetHistory(credentials) ==
    LET user_id == OptionalUserId(credentials) IN
    /\ http.pc = "idle" /\ req.pc = "idle"
    /\ http' = [IdleHttp EXCEPT !.pc = "done", !.route = "history-list",
                                !.credentials = credentials, !.user_id = user_id,
                                !.status = HTTP_200_OK,
                                !.listing = IF user_id = 0 THEN {}
                                            ELSE {i \in DOMAIN translations.rows :
                                                    translations.rows[i].user_id = user_id}]
    /\ UNCHANGED <<endpoints, nextId, settings, sess, req, cache, served, builtinSel,
                   translations, groq>>

\* variant: the ownership test is missing
ToggleFavorite_anyOwner(credentials, translation_id, is_favorite) ==
    LET auth == RequireUser(credentials)
        begun == [IdleHttp EXCEPT !.pc = "done", !.route = "favorite",
                                  !.credentials = credentials, !.user_id = auth.user_id,
                                  !.id = translation_id]
    IN
    /\ http.pc = "idle" /\ req.pc = "idle"
    /\ IF auth.status # 0
       THEN /\ http' = [begun EXCEPT !.status = auth.status]
            /\ translations' = translations
       ELSE IF translation_id \notin DOMAIN translations.rows
       THEN /\ http' = [begun EXCEPT !.status = RaisedInTry(HTTP_404_NOT_FOUND)]
            /\ translations' = translations
       ELSE /\ http' = [begun EXCEPT !.status = HTTP_200_OK, !.is_favorite = is_favorite]
            /\ translations' = [translations EXCEPT
                                  !.rows[translation_id].is_favorite = is_favorite]
    /\ UNCHANGED <<endpoints, nextId, settings, sess, req, cache, served, builtinSel, groq>>

\* PUT /favorite/{translation_id}
ToggleFavorite(credentials, translation_id, is_favorite) ==
    LET auth == RequireUser(credentials)
        begun == [IdleHttp EXCEPT !.pc = "done", !.route = "favorite",
                                  !.credentials = credentials, !.user_id = auth.user_id,
                                  !.id = translation_id]
    IN
    /\ http.pc = "idle" /\ req.pc = "idle"
    /\ IF auth.status # 0
       THEN /\ http' = [begun EXCEPT !.status = auth.status]
            /\ translations' = translations
       ELSE IF translation_id \notin DOMAIN translations.rows
       THEN /\ http' = [begun EXCEPT !.status = RaisedInTry(HTTP_404_NOT_FOUND)]
            /\ translations' = translations
       ELSE IF translations.rows[translation_id].user_id # auth.user_id
       THEN /\ http' = [begun EXCEPT !.status = RaisedInTry(HTTP_403_FORBIDDEN)]
            /\ translations' = translations
       ELSE /\ http' = [begun EXCEPT !.status = HTTP_200_OK, !.is_favorite = is_favorite]
            /\ translations' = [translations EXCEPT
                                  !.rows[translation_id].is_favorite = is_favorite]
    /\ UNCHANGED <<endpoints, nextId, settings, sess, req, cache, served, builtinSel, groq>>

\* DELETE /history
ClearHistory(credentials) ==
    LET auth == RequireUser(credentials)
        begun == [IdleHttp EXCEPT !.pc = "done", !.route = "history",
                                  !.credentials = credentials, !.user_id = auth.user_id]
    IN
    /\ http.pc = "idle" /\ req.pc = "idle"
    /\ IF auth.status # 0
       THEN /\ http' = [begun EXCEPT !.status = auth.status]
            /\ translations' = translations
       ELSE /\ http' = [begun EXCEPT !.status = HTTP_200_OK]
            /\ translations' =
                 [translations EXCEPT
                    !.rows = [i \in {j \in DOMAIN translations.rows :
                                        translations.rows[j].user_id # auth.user_id}
                                |-> translations.rows[i]]]
    /\ UNCHANGED <<endpoints, nextId, settings, sess, req, cache, served, builtinSel, groq>>

\* POST /custom-endpoints with its authentication prelude
PostCustomEndpoint(credentials, t, n, a) ==
    LET auth == RequireUser(credentials)
        begun == [IdleHttp EXCEPT !.pc = "done", !.route = "custom-endpoints",
                                  !.credentials = credentials, !.user_id = auth.user_id]
    IN
    /\ http.pc = "idle" /\ req.pc = "idle" /\ AllIdle
    /\ nextId <= MaxEndpoints
    /\ IF auth.status # 0
       THEN /\ http' = [begun EXCEPT !.status = auth.status]
            /\ UNCHANGED <<endpoints, nextId, builtinSel>>
       ELSE /\ http' = [begun EXCEPT !.status = HTTP_200_OK, !.id = nextId]
            /\ endpoints' = (nextId :> Row(auth.user_id, t, n, a)) @@ endpoints
            /\ nextId' = nextId + 1
            /\ builtinSel' = {p \in builtinSel : <<p[1], PrefCap(p[2])>>
                                                    \notin Activated(endpoints, endpoints')}
    /\ UNCHANGED <<settings, sess, req, cache, served, translations, groq>>

\* GET /users/me
GetMe(credentials) ==
    LET auth == RequireUser(credentials) IN
    /\ http.pc = "idle" /\ req.pc = "idle"
    /\ http' = [IdleHttp EXCEPT !.pc = "done", !.route = "me",
                                !.credentials = credentials, !.user_id = auth.user_id,
                                !.status = IF auth.status # 0 THEN auth.status
                                           ELSE HTTP_200_OK]
    /\ UNCHANGED <<endpoints, nextId, settings, sess, req, cache, served, builtinSel,
                   translations, groq>>

\* the response has left: the handler and its service call are over
HttpFinish ==
    /\ http.pc = "done"
    /\ http' = IdleHttp
    /\ req' = IdleReq
    /\ UNCHANGED <<endpoints, nextId, settings, sess, cache, served, builtinSel,
                   translations, groq>>

(***************************************************************************)
(* Inputs                                                                  *)
(***************************************************************************)
EndpointIds == 1..MaxEndpoints

CustomValues == {CustomPrefix \o ToString(i) : i \in EndpointIds} \cup {"custom_x"}

FieldItems == {<<"translate_api", v>> : v \in {"google"} \cup CustomValues}
              \cup {<<"stt_api", v>> : v \in {"groq"} \cup CustomValues}

\* settings_data dicts: up to MaxFields entries, one per field, in either order
SettingsInputs(items) ==
    {d \in UNION {[1..n -> items] : n \in 1..MaxFields} :
        \A i, j \in DOMAIN d : i # j => d[i][1] # d[j][1]}


Init ==
    /\ endpoints = <<>>
    /\ nextId = 1
    /\ settings = (1 :> DefaultSettings)
    /\ sess = [s \in Sessions |-> IdleSession]
    /\ req = IdleReq
    /\ cache = <<>>
    /\ served = {}
    /\ builtinSel = {}
    /\ http = IdleHttp
    /\ translations = NoTranslations
    /\ groq = IdleGroq

(***************************************************************************)
(* SpecStore: the settings store, one request at a time                    *)
(***************************************************************************)
StoreTypes == {"translation", "speech2text"}

\* SpecStore drives update_user_settings with one-entry translate_api dicts
StoreInputs == {d \in SettingsInputs(FieldItems) : Len(d) = 1 /\ d[1][1] = "translate_api"}

SessionStep(s) ==
    \/ SetField(s)
    \/ ActDeactivate(s)
    \/ ActSet(s)
    \/ ActCommit(s)
    \/ FinalCommit(s)
    \/ DbError(s)
    \/ Return(s)

NextStore ==
    \/ \E u \in Users, d \in StoreInputs : AllIdle /\ BeginUpdateSettings(1, u, d)
    \/ \E u \in Users, id \in EndpointIds, t \in StoreTypes : AllIdle /\ BeginActivate(1, u, id, t)
    \/ SessionStep(1)
    \/ \E u \in Users, t \in StoreTypes, n \in Names, a \in BOOLEAN : CreateEndpoint(u, t, n, a)
    \/ \E u \in Users, id \in EndpointIds, a \in BOOLEAN : UpdateEndpoint(u, id, a)
    \/ \E u \in Users, id \in EndpointIds : DeleteEndpoint(u, id)

SpecStore == Init /\ [][NextStore]_vars

(***************************************************************************)
(* SpecAtomic: update_user_settings with dicts of several fields           *)
(***************************************************************************)
AtomicInputs == SettingsInputs(FieldItems)

NextAtomic ==
    \/ \E d \in AtomicInputs : AllIdle /\ BeginUpdateSettings(1, 1, d)
    \/ SessionStep(1)
    \/ \E t \in StoreTypes, n \in Names, a \in BOOLEAN : CreateEndpoint(1, t, n, a)

SpecAtomic == Init /\ [][NextAtomic]_vars

(***************************************************************************)
(* Spec: capability requests against a store that is being configured      *)
(***************************************************************************)
Texts == {"hi", "hi:en"}
SourceLangs == {"vi", "en:vi"}
TargetLangs == {"fr"}
Callers == {Anonymous, 1}

\* three request contents, two of which give the same cache key content string
Contents == {<<x, sl, tl>> \in Texts \X SourceLangs \X TargetLangs :
                ~(x = "hi:en" /\ sl = "en:vi")}

RequestInputs ==
    {<<"translation", u, c[1], c[2], c[3]>> : u \in Callers, c \in Contents}
    \cup {<<c, u, "hi", "vi", "fr">> : c \in {"speech2text", "text2speech"}, u \in Callers}

TtsInputs == {<<<<"text2speech_api", n>>>> : n \in Names}

AllKeys == {GenerateCacheKey(c[1], c[2], c[3], "google") : c \in Contents}

RequestStep ==
    \/ \E dbOk \in BOOLEAN : Resolve(dbOk)
    \/ \E o \in {"ok", "empty", "fail"} : CustomCall(o)
    \/ \E getOk \in BOOLEAN : CacheGet(getOk)
    \/ \E putOk \in BOOLEAN, empty \in BOOLEAN : ProviderOk(putOk, empty)
    \/ ProviderFail
    \/ Finish
    \/ \E k \in AllKeys : Expire(k)

Next ==
    \/ \E i \in RequestInputs : AllIdle /\ StartRequest(i[1], i[2], i[3], i[4], i[5])
    \/ RequestStep
    \/ \E t \in Capabilities, n \in Names, a \in BOOLEAN :
            MatchType(1, t) = {} /\ CreateEndpoint(1, t, n, a)
    \/ \E d \in TtsInputs : req.pc = "idle" /\ AllIdle /\ BeginUpdateSettings(1, 1, d)
    \/ SetField(1)
    \/ FinalCommit(1)
    \/ Return(1)

Spec == Init /\ [][Next]_vars

(***************************************************************************)
(* SpecConc: two requests of user 1 run their transactions concurrently    *)
(***************************************************************************)
NextConc ==
    \/ \E n \in Names : CreateEndpoint(1, "translation", n, FALSE)
    \/ \E s \in Sessions, id \in EndpointIds : BeginActivate(s, 1, id, "translation")
    \/ \E s \in Sessions, d \in StoreInputs : BeginUpdateSettings(s, 1, d)
    \/ \E s \in Sessions : SessionStep(s)

SpecConc == Init /\ [][NextConc]_vars

(***************************************************************************)
(* SpecSwitch: user 1 switches providers between requests                  *)
(***************************************************************************)
SwitchInputs == {d \in SettingsInputs(FieldItems) : Len(d) = 1 /\ d[1][2] # "custom_x"}

SwitchRequests == {<<c, 1, "hi", "vi", "fr">> : c \in StoreTypes}

NextSwitch ==
    \/ \E t \in StoreTypes, n \in Names, a \in BOOLEAN :
            req.pc = "idle" /\ CreateEndpoint(1, t, n, a)
    \/ \E d \in SwitchInputs : req.pc = "idle" /\ AllIdle /\ BeginUpdateSettings(1, 1, d)
    \/ SessionStep(1)
    \/ \E i \in SwitchRequests : AllIdle /\ StartRequest(i[1], i[2], i[3], i[4], i[5])
    \/ RequestStep

SpecSwitch == Init /\ [][NextSwitch]_vars

(***************************************************************************)
(* SpecDetect: detect_language and translate_with_google on one cache      *)
(***************************************************************************)
DetectTexts == {"", "  ", "abcd", " abcd ", "hello", "hello "}

DetectKeys == {GenerateDetectionCacheKey(x) : x \in DetectTexts}

NextDetect ==
    \/ \E x \in DetectTexts : StartDetect(x)
    \/ \E c \in Contents : StartRequest("translation", Anonymous, c[1], c[2], c[3])
    \/ DetectCheck
    \/ \E getOk \in BOOLEAN : DetectCacheGet(getOk)
    \/ \E putOk \in BOOLEAN, empty \in BOOLEAN : DetectorOk(putOk, empty)
    \/ DetectorFail
    \/ \E dbOk \in BOOLEAN : Resolve(dbOk)
    \/ \E getOk \in BOOLEAN : CacheGet(getOk)
    \/ \E putOk \in BOOLEAN : ProviderOk(putOk, FALSE)
    \/ ProviderFail
    \/ Finish
    \/ \E k \in AllKeys \cup DetectKeys : Expire(k)

SpecDetect == Init /\ [][NextDetect]_vars

(***************************************************************************)
(* SpecGroq: call_grop_api on every provider answer of up to MaxSegments    *)
(* segments                                                                *)
(***************************************************************************)
AvgLogprobs == {-60, -50, -40}      \* hundredths
NoSpeechProbs == {10, 15, 20}       \* hundredths
SegmentTexts == {" hi ", "", "yo"}

\* segments as the provider's JSON gives them; any of the three keys may be absent
Segments ==
    [avg_logprob : AvgLogprobs, no_speech_prob : NoSpeechProbs, text : SegmentTexts]
    \cup [no_speech_prob : NoSpeechProbs, text : SegmentTexts]
    \cup [avg_logprob : AvgLogprobs, text : SegmentTexts]
    \cup [avg_logprob : AvgLogprobs, no_speech_prob : NoSpeechProbs]

InitGroq ==
    /\ endpoints = <<>>
    /\ nextId = 1
    /\ settings = (1 :> DefaultSettings)
    /\ sess = [s \in Sessions |-> IdleSession]
    /\ req = IdleReq
    /\ cache = <<>>
    /\ served = {}
    /\ builtinSel = {}
    /\ http = IdleHttp
    /\ translations = NoTranslations
    /\ groq \in {[IdleGroq EXCEPT !.pc = "called", !.segments = segs] :
                    segs \in UNION {[1..n -> Segments] : n \in 0..MaxSegments}}

NextGroq ==
    \/ GroqTranscribe
    \/ GroqFail

SpecGroq == InitGroq /\ [][NextGroq]_vars

(***************************************************************************)
(* SpecLive: routing requests whose external calls all return or fail      *)
(***************************************************************************)
ResolveStep == \E dbOk \in BOOLEAN : Resolve(dbOk)
CustomStep == \E a \in {"ok", "empty", "fail"} : CustomCall(a)
CacheGetStep == \E getOk \in BOOLEAN : CacheGet(getOk)
ProviderStep ==
    \/ \E putOk \in BOOLEAN, empty \in BOOLEAN : ProviderOk(putOk, empty)
    \/ ProviderFail

NextLive ==
    \/ \E i \in RequestInputs : StartRequest(i[1], i[2], i[3], i[4], i[5])
    \/ ResolveStep
    \/ CustomStep
    \/ CacheGetStep
    \/ ProviderStep
    \/ Finish
    \/ \E k \in AllKeys : Expire(k)
    \/ \E t \in {"translation", "speech2text"}, n \in Names, a \in BOOLEAN :
            MatchType(1, t) = {} /\ req.pc = "idle" /\ CreateEndpoint(1, t, n, a)

\* every call that was issued comes back: the resolver's query, the custom
\* endpoint's POST (httpx timeout), the cache get and the provider call
SpecLive ==
    /\ Init /\ [][NextLive]_vars
    /\ WF_vars(ResolveStep) /\ WF_vars(CustomStep)
    /\ WF_vars(CacheGetStep) /\ WF_vars(ProviderStep)

(***************************************************************************)
(* SpecApi: the HTTP handlers, one request at a time                       *)
(***************************************************************************)
Engines == {"google", "openai", "local"}
Twice(v) == v \o v
\* a blank text, a text, and a text of 8192 characters
SynthesizeTexts ==
    {"  ", "hi",
     Twice(Twice(Twice(Twice(Twice(Twice(Twice(Twice(Twice(Twice(Twice(Twice(Twice("a")))))))))))))}
AudioSizes == {512, 2048}      \* bytes of the uploaded audio

NextApi ==
    \/ \E c \in Credentials, e \in Engines : TranslateBegin(c, e, "hi", "vi", "fr")
    \/ \E commitOk \in BOOLEAN : TranslateEnd(commitOk)
    \/ \E c \in Credentials, hasFile \in BOOLEAN, size \in AudioSizes :
            TranscribeBegin(c, hasFile, size)
    \/ TranscribeAfterStt
    \/ TranscribeAfterDetect("fr")
    \/ TranscribeEnd
    \/ \E c \in Credentials, x \in SynthesizeTexts : SynthesizeBegin(c, x)
    \/ SynthesizeEnd
    \/ \E c \in Credentials : GetFavorites(c)
    \/ \E c \in Credentials, id \in 1..MaxTranslations, fav \in BOOLEAN :
            ToggleFavorite(c, id, fav)
    \/ \E c \in Credentials : ClearHistory(c)
    \/ \E c \in Credentials, t \in StoreTypes, n \in Names, a \in BOOLEAN :
            MatchType(1, t) = {} /\ PostCustomEndpoint(c, t, n, a)
    \/ \E c \in Credentials : GetMe(c)
    \/ HttpFinish
    \/ Resolve(TRUE)
    \/ \E o \in {"ok", "empty", "fail"} : CustomCall(o)
    \/ CacheGet(TRUE)
    \/ \E empty \in BOOLEAN : ProviderOk(TRUE, empty)
    \/ ProviderFail
    \/ DetectCheck
    \/ DetectCacheGet(TRUE)
    \/ \E empty \in BOOLEAN : DetectorOk(TRUE, empty)
    \/ DetectorFail

SpecApi == Init /\ [][NextApi]_vars

(***************************************************************************)
(* SpecHistory: two users translate, mark favorites, list and clear        *)
(***************************************************************************)
HistoryCredentials ==
    {<<>>} \cup {<<[valid |-> TRUE, sub |-> n]>> : n \in DOMAIN UsersTable}

NextHistory ==
    \/ \E c \in HistoryCredentials : TranslateBegin(c, "google", "hi", "vi", "fr")
    \/ CacheGet(TRUE)
    \/ ProviderOk(TRUE, FALSE)
    \/ ProviderFail
    \/ TranslateEnd(TRUE)
    \/ \E c \in HistoryCredentials : GetHistory(c)
    \/ \E c \in HistoryCredentials : GetFavorites(c)
    \/ \E c \in HistoryCredentials, id \in 1..MaxTranslations, fav \in BOOLEAN :
            ToggleFavorite(c, id, fav)
    \/ \E c \in HistoryCredentials : ClearHistory(c)
    \/ HttpFinish

SpecHistory == Init /\ [][NextHistory]_vars

(***************************************************************************)
(* Properties                                                              *)
(***************************************************************************)
ReqKey == GenerateCacheKey(req.text, req.src, req.dst, "google")

\* the request went through the built-in path (cache or provider)
ViaBuiltin == req.hit \/ req.providerCalls = 1

\* C1: translate_text with an active custom translation endpoint whose call
\* fails goes on to the built-in Google path, and the call succeeds whenever
\* that built-in path succeeds.
C1_CustomFailureFallsBack ==
    (req.cap = "translation" /\ req.customFailed) =>
        /\ req.pc \in {"cache_get", "provider", "done"}
        /\ req.pc = "done" => ViaBuiltin /\ (~req.providerFailed => req.result = "ok")

C1_Witness ==
    /\ req.pc = "done" /\ req.cap = "translation"
    /\ req.customFailed /\ req.providerCalls = 1 /\ req.result = "ok"

\* C2: for every capability, a request whose custom endpoint call failed is
\* continued on the built-in path; the custom failure alone never ends it.
C2_CustomFailureNeverSurfaced ==
    (req.pc = "done" /\ req.customFailed) => ViaBuiltin

\* C3: when the Google provider call fails, translate_with_google raises and
\* that step leaves the cache exactly as it was, so the request's key has no
\* entry written by the failure.
C3_NoNegativeCaching ==
    [][(req.pc = "provider" /\ req.cap = "translation" /\ req'.providerFailed)
          => (req'.result = "error" /\ cache' = cache)]_vars

C3_Witness ==
    /\ req.pc = "done" /\ req.cap = "translation"
    /\ req.providerFailed /\ req.result = "error"
    /\ ReqKey \notin DOMAIN cache

C5_SecondCallIsHit ==
    req.warm => (req.pc = "done" /\ req.hit /\ req.providerCalls = 0)

C5_Witness ==
    /\ req.pc = "done" /\ req.warm /\ req.hit /\ req.providerCalls = 0
    /\ \E e \in served : /\ <<e[1], e[2], e[3]>> = <<req.text, req.src, req.dst>>
                         /\ e[4] # req.user_id

\* activate_custom_endpoint has just returned in session s
Returned(s) == sess[s].pc \in {"ret", "loop"} /\ sess[s].act \in {"True", "False"}

\* C6 as stated: after activate_custom_endpoint(user, X, type) returns, exactly
\* one endpoint of (user, type) is active and it is X.
C6_ExactlyTargetActive ==
    \A s \in Sessions :
        Returned(s) =>
            ActiveOf(sess[s].user_id, sess[s].endpoint_type) = {sess[s].endpoint_id}

\* C6 amended: the call returns True exactly when X is an endpoint of that user
\* and type, and then X is the only active endpoint of the pair; otherwise it
\* returns False and no endpoint of the pair is active.
C6_Amended ==
    \A s \in Sessions :
        Returned(s) =>
            LET u == sess[s].user_id
                t == sess[s].endpoint_type
                X == sess[s].endpoint_id
            IN IF X \in MatchType(u, t)
               THEN sess[s].act = "True" /\ ActiveOf(u, t) = {X}
               ELSE sess[s].act = "False" /\ ActiveOf(u, t) = {}

C6_Witness ==
    \E s \in Sessions :
        /\ Returned(s) /\ sess[s].act = "True"
        /\ ActiveOf(sess[s].user_id, sess[s].endpoint_type) = {sess[s].endpoint_id}
        /\ Cardinality(MatchType(sess[s].user_id, sess[s].endpoint_type)) >= 2

\* C7: every (user_id, endpoint_type) pair has at most one active endpoint.
C7_AtMostOneActive ==
    \A u \in Users, t \in EndpointTypes : Cardinality(ActiveOf(u, t)) <= 1

\* C8: when two concurrent activations of the same (user, type) have both
\* finished, the committed table has at most one active endpoint of the pair.
C8_NoTwoActiveAfterRace ==
    (\A s \in Sessions : sess[s].pc \in {"idle", "ret"}) =>
        Cardinality(ActiveOf(1, "translation")) <= 1

C8_Witness ==
    /\ \A s \in Sessions : /\ sess[s].pc = "ret"
                           /\ sess[s].op = "activate_custom_endpoint"
                           /\ sess[s].ret = "True"
    /\ sess[1].endpoint_id # sess[2].endpoint_id
    /\ \E s \in Sessions : sess[s].overlapped

InActivate(s) == sess[s].pc \in {"act_deact", "act_set", "act_commit"}

\* C9 as stated: a commit of activate_custom_endpoint never takes a pair that
\* had an active endpoint to a state with no active endpoint.
C9_NeverZeroActive ==
    [][\A s \in Sessions :
          (sess[s].pc = "act_commit" /\ sess'[s].pc # "act_commit"
             /\ sess'[s].ret # "raised"
             /\ ActiveOf(sess[s].user_id, sess[s].endpoint_type) # {})
          => ActiveOf(sess[s].user_id, sess[s].endpoint_type)' # {}]_vars

\* C9 amended: while a session is inside activate_custom_endpoint the committed
\* table changes only at its commit, which applies both updates at once (every
\* endpoint of the pair inactive except the target, when the target is an
\* endpoint of the pair; with another target the pair is left with no active
\* endpoint); a call that raises leaves the table as it was.
C9_Amended ==
    [][\A s \in Sessions :
          InActivate(s) =>
            \/ endpoints' = endpoints
            \/ /\ sess[s].pc = "act_commit"
               /\ sess'[s].ret # "raised"
               /\ DOMAIN endpoints' = DOMAIN endpoints
               /\ \A id \in MatchType(sess[s].user_id, sess[s].endpoint_type) :
                     endpoints'[id].is_active = (id = sess[s].endpoint_id)]_vars

C9_Witness ==
    \E s \in Sessions :
        /\ sess[s].pc = "ret" /\ sess[s].op = "activate_custom_endpoint"
        /\ sess[s].ret = "raised" /\ sess[s].failedAt = "act_commit"
        /\ sess[s].endpoint_id \in MatchType(sess[s].user_id, sess[s].endpoint_type)
        /\ ActiveOf(sess[s].user_id, sess[s].endpoint_type) # {}
        /\ sess[s].endpoint_id \notin ActiveOf(sess[s].user_id, sess[s].endpoint_type)

\* C10: after update_user_settings set translate_api (stt_api) to a built-in
\* provider, and until an endpoint of that capability is activated again, the
\* user has no active endpoint of the capability, and a translate_text
\* (speech-to-text call_api) request of the user is served on the built-in
\* path without a custom endpoint call.
C10_BuiltinAfterSwitch ==
    /\ \A p \in builtinSel : ActiveOf(p[1], PrefCap(p[2])) = {}
    /\ \A p \in builtinSel :
          (req.pc = "done" /\ req.user_id = p[1] /\ req.cap = PrefCap(p[2]))
             => (req.customCalls = 0 /\ ViaBuiltin)

C10_Witness ==
    /\ <<1, "translate_api">> \in builtinSel
    /\ MatchType(1, "translation") # {}
    /\ req.pc = "done" /\ req.user_id = 1 /\ req.cap = "translation"
    /\ req.customCalls = 0 /\ req.providerCalls = 1

\* C11: the resolver of every capability hands back either an endpoint or
\* none and never raises; it gives none when the caller is anonymous, when the
\* pair has no active endpoint and when the store lookup fails, and the request
\* then enters the built-in path.
C11_ResolverNeverRaises ==
    [][(req.pc = "resolve" /\ req'.pc # "resolve") =>
          /\ req'.pc \in {"custom", BuiltinEntry(req.cap)}
          /\ req'.result = "none"
          /\ (\/ req.user_id = Anonymous
              \/ ActiveOf(req.user_id, req.cap) = {}
              \/ "lookup" \in req'.faults)
                => (req'.pc = BuiltinEntry(req.cap) /\ req'.endpoint = 0)]_vars

C11_Witness ==
    /\ req.pc = "done" /\ "lookup" \in req.faults
    /\ ActiveEndpoints(req.cap, req.user_id) # {}
    /\ req.customCalls = 0 /\ req.providerCalls = 1 /\ req.result = "ok"

\* the fresh result of the built-in computation of the request
FreshValue == IF req.cap = "detect" THEN BestDetection(req.text)
              ELSE TranslationData(req.text, req.src, req.dst)

\* C12: a failing cache get is a miss (no hit is reported, the provider or the
\* detector is called), a failing cache put still returns the fresh result,
\* and a request whose only failures are cache failures ends successfully.
C12_CacheFailuresNeverFail ==
    /\ "get" \in req.faults =>
          /\ ~req.hit
          /\ req.pc \in {"provider", "detector", "done"}
          /\ req.pc = "done" => req.providerCalls = 1
    /\ "put" \in req.faults =>
          (req.pc = "done" /\ req.result = "ok" /\ req.value = FreshValue)
    /\ (req.pc = "done" /\ req.faults # {} /\ ~req.providerFailed) => req.result = "ok"

C12_Witness ==
    /\ req.pc = "done" /\ req.cap = "translation"
    /\ req.faults = {"get", "put"}
    /\ ReqKey \in DOMAIN cache
    /\ req.result = "ok" /\ req.value = FreshValue

\* C13: every translation cache entry is the answer of a successful built-in
\* provider call for a content with that key, and a cache hit hands out such an
\* answer; no entry comes from a custom endpoint.
C13_NoCustomResultCached ==
    /\ \A k \in DOMAIN cache :
          \E c \in Contents : /\ k = GenerateCacheKey(c[1], c[2], c[3], "google")
                               /\ cache[k] = TranslationData(c[1], c[2], c[3])
    /\ req.hit => req.value.translation_engine = "google"

C13_Witness ==
    /\ req.pc = "done" /\ req.cap = "translation" /\ req.result = "ok"
    /\ req.customCalls = 1 /\ req.providerCalls = 0
    /\ cache # <<>> /\ ReqKey \notin DOMAIN cache

\* C14 as stated: detect_language of a text shorter than 5 characters returns
\* language 'en' at confidence 0.5 without consulting the detector or the cache.
C14_ShortTextDefault ==
    (req.cap = "detect" /\ Len(req.text) < MinDetectLen) =>
        /\ req.pc \in {"det_check", "done"}
        /\ req.pc = "done" =>
              (req.value = Detection("en", "0.5") /\ req.providerCalls = 0 /\ ~req.hit)

\* C14 amended: detect_language consults neither the detector nor the cache
\* when the text without its surrounding blanks is shorter than 5 characters;
\* the result is then ('en', 0.5) when that stripped text is not empty and
\* ('unknown', 0.0) when it is empty.
C14_Amended ==
    (req.cap = "detect" /\ Len(Strip(req.text)) < MinDetectLen) =>
        /\ req.pc \in {"det_check", "done"}
        /\ req.pc = "done" =>
              /\ req.value = IF Strip(req.text) = "" THEN Detection("unknown", "0.0")
                                                     ELSE Detection("en", "0.5")
              /\ req.providerCalls = 0 /\ ~req.hit /\ req.faults = {}

C14_Witness ==
    /\ req.cap = "detect" /\ req.pc = "done" /\ req.text = " abcd "
    /\ req.value = Detection("en", "0.5") /\ req.providerCalls = 0
    /\ GenerateDetectionCacheKey("hello") \in DOMAIN cache

\* what the claim calls a retained segment
RetainedAsStated(segment) ==
    /\ "avg_logprob" \in DOMAIN segment /\ segment.avg_logprob > AvgLogprobThreshold
    /\ "no_speech_prob" \in DOMAIN segment /\ segment.no_speech_prob <= NoSpeechThreshold

RetainedStrictly(segment) ==
    /\ "avg_logprob" \in DOMAIN segment /\ segment.avg_logprob > AvgLogprobThreshold
    /\ "no_speech_prob" \in DOMAIN segment /\ segment.no_speech_prob < NoSpeechThreshold

\* the texts of a sequence joined by single blanks
RECURSIVE JoinBlank(_)
JoinBlank(texts) ==
    IF texts = <<>> THEN ""
    ELSE IF Len(texts) = 1 THEN texts[1]
    ELSE texts[1] \o " " \o JoinBlank(Tail(texts))

TrimmedTexts(segments) == [i \in DOMAIN segments |-> Strip(SegmentText(segments[i]))]

\* C15 as stated: a segment is retained iff avg_logprob > -0.5 and
\* no_speech_prob <= 0.15, and the transcript is the retained segments' trimmed
\* texts in order, joined by single blanks.
C15_SegmentFilter ==
    (groq.pc = "returned" /\ ~groq.raised) =>
        LET kept == SelectSeq(groq.segments, RetainedAsStated) IN
        /\ kept # <<>> => groq.returns = "text"
        /\ groq.returns = "text" => groq.text = JoinBlank(TrimmedTexts(kept))

\* C15 amended: a segment is retained iff both values are present,
\* avg_logprob > -0.5 and no_speech_prob < 0.15 (0.15 itself is dropped); the
\* transcript is the retained segments' trimmed texts in order, joined by
\* single blanks, with the blanks at both ends of the result removed; with no
\* retained segment the call returns None.
C15_Amended ==
    (groq.pc = "returned" /\ ~groq.raised) =>
        LET kept == SelectSeq(groq.segments, RetainedStrictly) IN
        IF kept = <<>> THEN groq.returns = "None"
        ELSE groq.returns = "text" /\ groq.text = Strip(JoinBlank(TrimmedTexts(kept)))

C15_Witness ==
    /\ groq.pc = "returned" /\ groq.returns = "text" /\ groq.text = "hi yo"
    /\ Len(groq.segments) = 2

\* C20: when the detector raises, detect_language returns ('en', 0.3) without
\* an error and that step leaves the cache as it was; no detection cache entry
\* ever holds the fallback answer.
C20_DetectorFailureFallback ==
    [][/\ (req.pc = "detector" /\ req'.providerFailed) =>
             /\ req'.pc = "done" /\ req'.result = "ok"
             /\ req'.value = Detection("en", "0.3")
             /\ cache' = cache
       /\ \A k \in DOMAIN cache' \cap DetectKeys :
             cache'[k] # Detection("en", "0.3")]_vars

C20_Witness ==
    /\ req.pc = "done" /\ req.cap = "detect" /\ req.providerFailed
    /\ req.value = Detection("en", "0.3") /\ req.result = "ok"
    /\ GenerateDetectionCacheKey(req.text) \notin DOMAIN cache

\* bytes below which the realtime handler skipped a chunk
SkipThreshold == 1024

\* C16: a POST /transcribe whose audio is smaller than 1024 bytes is skipped:
\* its speech-to-text call reaches neither a custom endpoint nor the built-in
\* provider, and it is answered with an empty text, not with an error.
C16_SmallAudioSkipped ==
    (http.route = "transcribe" /\ http.size > 0 /\ http.size < SkipThreshold) =>
        /\ http.pc = "stt" => (req.customCalls = 0 /\ req.providerCalls = 0)
        /\ http.pc \notin {"detect", "translate"}
        /\ http.pc = "done" => (http.status = HTTP_200_OK /\ http.text = "")

\* the credentials carry a token that resolves to an existing user
ResolvesToUser(credentials) ==
    /\ credentials # <<>>
    /\ credentials[1].valid
    /\ credentials[1].sub \in DOMAIN UsersTable

\* C17: a step of POST /translate inserts a Translation row exactly when it
\* ends the request successfully and the token resolves to an existing user;
\* a successful response without such a user has id null and is_favorite false.
C17_AnonymousNotPersisted ==
    [][http'.route = "translate" =>
          /\ IF /\ http.pc = "google" /\ http'.pc = "done"
                /\ http'.status = HTTP_200_OK
                /\ ResolvesToUser(http'.credentials)
             THEN /\ DOMAIN translations'.rows = DOMAIN translations.rows \cup {http'.id}
                  /\ http'.id \notin DOMAIN translations.rows
                  /\ translations'.rows[http'.id].user_id
                        = UsersTable[http'.credentials[1].sub]
                  /\ ~translations'.rows[http'.id].is_favorite
                  /\ \A i \in DOMAIN translations.rows :
                        translations'.rows[i] = translations.rows[i]
             ELSE translations' = translations
          /\ (/\ http'.pc = "done" /\ http'.status = HTTP_200_OK
              /\ ~ResolvesToUser(http'.credentials))
                => (http'.id = 0 /\ ~http'.is_favorite)]_vars

C17_Witness ==
    /\ http.route = "translate" /\ http.pc = "done" /\ http.status = HTTP_200_OK
    /\ http.credentials # <<>> /\ ~ResolvesToUser(http.credentials)
    /\ http.id = 0 /\ ~http.is_favorite
    /\ DOMAIN translations.rows = {1}

\* C18: a POST /translate of a user with an active custom translation endpoint
\* calls that endpoint first, and an engine hint of 'google' or 'openai' is
\* served by a built-in provider when the built-in path is taken.
C18_CustomBeforeEngineHint ==
    (http.route = "translate" /\ http.pc = "done") =>
        /\ (http.user_id # 0 /\ ActiveOf(http.user_id, "translation") # {})
              => req.customCalls = 1
        /\ (http.engine \in {"google", "openai"} /\ req.customCalls = 0)
              => (req.hit \/ req.providerCalls = 1)

\* the protected handlers
ProtectedRoutes == {"favorites", "favorite", "history", "custom-endpoints", "me"}

\* C19: a request to a protected handler without credentials, or with a token
\* that fails verification, is answered 401.
C19_AccessDenied ==
    (/\ http.pc = "done" /\ http.route \in ProtectedRoutes
     /\ (http.credentials = <<>> \/ ~http.credentials[1].valid))
        => http.status = HTTP_401_UNAUTHORIZED

\* C21: a successful translate_with_google result, from the cache or from the
\* provider, has the current request's text as source_text and engine
\* 'google', and a cache hit carries the fields the provider call for the same
\* (text, source_lang, target_lang) produces.
C21_CacheHitMatchesRequest ==
    (/\ req.cap = "translation" /\ req.pc = "done" /\ req.result = "ok"
     /\ ViaBuiltin) =>
        /\ req.value.source_text = req.text
        /\ req.value.translation_engine = "google"
        /\ req.hit => req.value = TranslationData(req.text, req.src, req.dst)

\* C22: in one translate_text or speech-to-text call_api request the custom
\* endpoint and the built-in provider are each called at most once, the
\* provider is called only when the resolver returned no endpoint or the
\* custom call failed, and a custom call that succeeds ends the request on
\* that step with the cache untouched and no built-in call.
C22_AtMostOnceEach ==
    [][req'.cap \in {"translation", "speech2text"} =>
          /\ req'.customCalls <= 1 /\ req'.providerCalls <= 1
          /\ req'.providerCalls > req.providerCalls
                => (req.pc = "provider" /\ (req.endpoint = 0 \/ req.customFailed))
          /\ req'.hit => (req.endpoint = 0 \/ req.customFailed)
          /\ (req'.customCalls > req.customCalls /\ ~req'.customFailed)
                => (/\ req'.pc = "done" /\ req'.providerCalls = 0 /\ ~req'.hit
                    /\ req'.faults \cap {"get", "put"} = {} /\ cache' = cache)]_vars

C22_Witness ==
    /\ req.pc = "done" /\ req.cap = "speech2text"
    /\ req.endpoint # 0 /\ req.customCalls = 1 /\ req.customFailed
    /\ req.providerCalls = 1

\* C25: a speech-to-text request whose active custom endpoint answers 200
\* without a transcript ends with no transcript and without a call to the
\* built-in provider.
C25_EmptyCustomAnswerIsSuccess ==
    (req.cap = "speech2text" /\ req.answer = "empty") =>
        (req.pc = "done" /\ req.result = "None" /\ req.providerCalls = 0)

\* C23: when every external call returns or fails, a translate_text request
\* that has started ends with a result (Return) or an error (Propagate), and
\* it ends with an error only when the built-in provider call itself failed.
C23_RequestTerminates ==
    /\ [](req.cap = "translation" /\ req.pc = "done"
            => /\ req.result \in {"ok", "error"}
               /\ req.result = "error" => req.providerFailed)
    /\ (req.cap = "translation" /\ req.pc = "resolve") ~> (req.pc = "done")

C23_Witness ==
    /\ req.cap = "translation" /\ req.pc = "done"
    /\ req.customFailed /\ "get" \in req.faults
    /\ req.providerFailed /\ req.result = "error"

\* C24: POST /synthesize with a blank text or a text of more than 5000
\* characters is answered 422 and calls neither a custom endpoint nor
\* ElevenLabs.
C24_SynthesizeValidation ==
    (/\ http.route = "synthesize"
     /\ (Strip(http.text) = "" \/ Len(http.text) > MaxSynthesizeLen)) =>
        /\ http.pc = "done" /\ http.status = HTTP_422_UNPROCESSABLE
        /\ req.customCalls = 0 /\ req.providerCalls = 0

\* C26: POST /transcribe goes on to detection and translation only with a
\* transcript; without one it answers 200 with both texts empty; with one and
\* a translation that failed it answers 200 with the transcript and an empty
\* translated_text.
C26_TranscribePipeline ==
    [][http'.route = "transcribe" =>
          /\ (http.pc = "stt" /\ http'.pc # "stt" /\ req.result # "error") =>
                IF req.result = "None" \/ req.value.translated_text = ""
                THEN /\ http'.pc = "done" /\ http'.status = HTTP_200_OK
                     /\ http'.text = "" /\ http'.translated_text = ""
                     /\ req' = req
                ELSE /\ http'.pc = "detect" /\ http'.text = req.value.translated_text
          /\ http'.pc \in {"detect", "translate"} => http'.text # ""
          /\ (http.pc = "translate" /\ http'.pc = "done" /\ req.result = "error") =>
                /\ http'.status = HTTP_200_OK
                /\ http'.text = http.text /\ http'.translated_text = ""]_vars

C26_Witness ==
    /\ http.route = "transcribe" /\ http.pc = "done" /\ http.status = HTTP_200_OK
    /\ http.text # "" /\ http.translated_text = ""
    /\ req.cap = "translation" /\ req.customFailed /\ req.providerFailed

\* rows of another user or another endpoint type than (u, types)
OtherRows(u, types) ==
    {id \in DOMAIN endpoints :
        endpoints[id].user_id # u \/ endpoints[id].endpoint_type \notin types}

\* C27: the commit of activate_custom_endpoint(user, id, type), and the commit
\* of an update_user_settings call that ran deactivate_all_custom_endpoints
\* (user, type), leave every endpoint of another user or another type as it
\* was; when id is not an endpoint of (user, type) the activation makes no
\* endpoint active and returns False.
C27_OtherEndpointsUntouched ==
    [][\A s \in Sessions :
          /\ (sess[s].pc = "act_commit" /\ sess'[s].pc # "act_commit") =>
                /\ \A id \in OtherRows(sess[s].user_id, {sess[s].endpoint_type}) :
                      id \in DOMAIN endpoints' /\ endpoints'[id] = endpoints[id]
                /\ (/\ sess'[s].ret # "raised"
                    /\ ~(/\ sess[s].endpoint_id \in DOMAIN endpoints
                         /\ endpoints[sess[s].endpoint_id].user_id = sess[s].user_id
                         /\ endpoints[sess[s].endpoint_id].endpoint_type
                               = sess[s].endpoint_type))
                      => /\ sess'[s].act = "False"
                         /\ \A id \in DOMAIN endpoints :
                               endpoints'[id].is_active => endpoints[id].is_active
          /\ (sess[s].pc = "loop" /\ sess'[s].pc = "ret") =>
                \A id \in OtherRows(sess[s].user_id,
                                     {TypeOfField(f) : f \in sess[s].deacts}) :
                    id \in DOMAIN endpoints' /\ endpoints'[id] = endpoints[id]]_vars

C27_Witness ==
    \E s \in Sessions :
        /\ sess[s].pc = "ret" /\ sess[s].op = "activate_custom_endpoint"
        /\ sess[s].ret = "False"
        /\ sess[s].endpoint_id \in DOMAIN endpoints
        /\ endpoints[sess[s].endpoint_id].user_id # sess[s].user_id
        /\ endpoints[sess[s].endpoint_id].endpoint_type = sess[s].endpoint_type
        /\ endpoints[sess[s].endpoint_id].is_active

\* C28: an update_user_settings call that raises leaves the stored settings
\* row and every is_active flag as they were before the call: no commit made
\* during the call has changed a stored row.
C28_UpdateAllOrNothing ==
    \A s \in Sessions :
        (/\ sess[s].op = "update_user_settings"
         /\ sess[s].pc = "ret" /\ sess[s].ret = "raised") => ~sess[s].wrote

\* the preference of user u in field names endpoint id
Prefers(u, field, id) == settings[u][field] = CustomPrefix \o ToString(id)

\* C29: a user's translate_api (stt_api) preference is 'custom_<id>' exactly
\* when <id> is that user's active endpoint of type translation (speech2text),
\* and with a built-in preference the user has no active endpoint of the type.
C29_PreferenceMatchesActive ==
    \A u \in DOMAIN settings, field \in {"translate_api", "stt_api"} :
        /\ \A id \in 1..MaxEndpoints :
              Prefers(u, field, id) <=> id \in ActiveOf(u, PrefCap(field))
        /\ ~IsCustom(settings[u][field]) => ActiveOf(u, PrefCap(field)) = {}

\* the user a request is authenticated as, 0 for none
AuthUser(credentials) ==
    IF ResolvesToUser(credentials) THEN UsersTable[credentials[1].sub] ELSE 0

\* C30: a favorite toggle or a clear-history request of user A leaves every
\* Translation row of another user in the table and unchanged, and the
\* history and favorites listings answered to A hold only rows of A.
C30_HistoryIsolated ==
    [][(/\ http.pc = "idle" /\ http'.pc = "done"
        /\ http'.route \in {"favorite", "history", "favorites", "history-list"}) =>
          /\ \A i \in DOMAIN translations.rows :
                translations.rows[i].user_id # AuthUser(http'.credentials)
                   => /\ i \in DOMAIN translations'.rows
                      /\ translations'.rows[i] = translations.rows[i]
          /\ \A i \in http'.listing :
                /\ i \in DOMAIN translations.rows
                /\ translations.rows[i].user_id = AuthUser(http'.credentials)]_vars

C30_Witness ==
    /\ http.route = "favorite" /\ http.pc = "done"
    /\ AuthUser(http.credentials) # 0
    /\ http.id \in DOMAIN translations.rows
    /\ translations.rows[http.id].user_id # AuthUser(http.credentials)
    /\ translations.rows[http.id].is_favorite
    /\ http.status # HTTP_200_OK

====
